---- MODULE Spec2Model ----
(***************************************************************************)
(* Session lifecycle of the quiz socket server (src/src/server.js and its  *)
(* near-duplicate src/unnamed/part_000, persistence in src/fileStore.js).  *)
(*                                                                         *)
(* State: the process-wide `sessions` object, one record per socket        *)
(* (open flag, socket.data, joined rooms), the wall clock, and `last`, the  *)
(* event handled by the latest step: its payload, the store and sockets it *)
(* found, the messages it emitted and the snapshots it handed to           *)
(* saveSessions.  `started` counts the sessionStarted signals sent for the *)
(* session record currently stored under a code.  `disk` is the content of *)
(* ./sessions.json and `writes` the snapshots handed to writeFile whose    *)
(* write has not completed; writes are taken to succeed, one at a time.    *)
(*                                                                         *)
(* nanoid(6).toUpperCase() is a random draw from a finite alphabet and the  *)
(* handler never looks the result up in `sessions`, so createSession may   *)
(* draw any code, one in use included.  nanoid() (21 characters) is taken   *)
(* to return an id that was never returned before.                         *)
(***************************************************************************)
EXTENDS Integers, Sequences, FiniteSets, TLC

\* ---------------------------------------------------------------- bounds
\* sockets that can be open at the same time
MaxSockets == 2
\* steps of a run: events handled (connection, socket events, disconnect) and
\* clock ticks
MaxSteps == 5
\* ticks of the wall clock in a run
MaxTime == 1
\* const TTL = 24 * 60 * 60 * 1000, in hours: the clock counts hours
TTL == 24

Sockets == 1..MaxSockets
Codes == {"AAA111", "BBB222"}
Nicknames == {"Ann", "Bob"}
SessionNames == {"Game1"}
Scores == {0, 10}
\* a playerId a client made up, never returned by nanoid()
ForgedIds == {0}

VARIABLES sessions, sockets, nextId, now, steps, started, last, disk, writes

vars == <<sessions, sockets, nextId, now, steps, started, last, disk, writes>>

\* nanoid() returns nextId; the ids returned so far
IssuedIds == 1..(nextId - 1)
\* the playerId values a client can put into a payload
ClientIds == IssuedIds \cup ForgedIds

\* ---------------------------------------------------------------- helpers
\* socket.data before any handler assigned it
NoData == <<>>

NewSocket == [open |-> FALSE, data |-> NoData, rooms |-> {}]

Player(id, nickname, score, isHost) ==
    [id |-> id, nickname |-> nickname, score |-> score, isHost |-> isHost]

\* players.find((p) => p.id === playerId): index of the first match, 0 if none
FindPlayer(players, playerId) ==
    IF \E i \in 1..Len(players) : players[i].id = playerId
    THEN CHOOSE i \in 1..Len(players) :
            /\ players[i].id = playerId
            /\ \A j \in 1..(i - 1) : players[j].id # playerId
    ELSE 0

\* players.filter((p) => p.id !== playerId)
RemovePlayer(players, playerId) ==
    LET Keep(p) == p.id # playerId IN SelectSeq(players, Keep)

\* io.to(code): the open sockets that joined the room
Room(socks, code) == {s \in Sockets : socks[s].open /\ code \in socks[s].rooms}

\* socket.emit(ev, data)
EmitTo(s, ev, data) == [ev |-> ev, room |-> "", to |-> {s}, data |-> data]

\* io.to(code).emit(ev, data)
EmitRoom(socks, code, ev, data) ==
    [ev |-> ev, room |-> code, to |-> Room(socks, code), data |-> data]

\* mutant: the room is told, the store is not saved
broadcastNoSave(ss, socks, code) ==
    [saves |-> <<>>,
     out   |-> <<EmitRoom(socks, code, "sessionUpdate", ss[code])>>]

\* broadcast(code): saveSessions(sessions), then sessionUpdate to the room
broadcast(ss, socks, code) ==
    [saves |-> <<ss>>,
     out   |-> <<EmitRoom(socks, code, "sessionUpdate", ss[code])>>]

Quiet == [saves |-> <<>>, out |-> <<>>]

\* mutant: an early return tells the caller, as joinSession does
IgnoredWithError(s) ==
    [saves |-> <<>>, out |-> <<EmitTo(s, "error", "Session not found")>>]

\* an early return of a handler: nothing saved, nothing emitted
Ignored(s) == Quiet

\* the latest sessionUpdate sent for each code, after the messages `out`
LatestUpdates(updates, out) ==
    LET Sent(c) == {i \in 1..Len(out) :
                       out[i].ev = "sessionUpdate" /\ out[i].room = c}
        sent    == {c \in Codes : Sent(c) # {}}
        Latest(c) == CHOOSE i \in Sent(c) : \A j \in Sent(c) : j <= i
    IN [c \in DOMAIN updates \cup sent |->
            IF c \in sent THEN out[Latest(c)].data ELSE updates[c]]

\* the record kept of a step: the event, its payload, the store and the sockets
\* it found, the snapshots it gave to saveSessions and the messages it emitted;
\* and, over the whole run, the snapshot of the most recent saveSessions call
\* and the latest sessionUpdate sent for each code
Event(op, s, args, eff) ==
    [op |-> op, sock |-> s, args |-> args,
     before |-> sessions, socksBefore |-> sockets,
     saves |-> eff.saves, out |-> eff.out,
     saved |-> IF eff.saves = <<>> THEN last.saved
               ELSE <<eff.saves[Len(eff.saves)]>>,
     updates |-> LatestUpdates(last.updates, eff.out)]

\* the record of a process start that found the store ss
Started(ss) ==
    [op |-> "init", sock |-> 0, args |-> <<>>,
     before |-> ss, socksBefore |-> [s \in Sockets |-> NewSocket],
     saves |-> <<>>, out |-> <<>>, saved |-> <<>>, updates |-> <<>>]

\* socket.join(code); socket.data = { code, playerId }
Associate(socks, s, code, playerId) ==
    [socks EXCEPT ![s].rooms = @ \cup {code}, ![s].data = <<code, playerId>>]

Put(ss, code, session) ==
    [c \in DOMAIN ss \cup {code} |-> IF c = code THEN session ELSE ss[c]]

\* ./sessions.json: absent, not parseable, or the JSON text of a mapping.
\* JSON.stringify followed by JSON.parse gives back the strings, numbers and
\* booleans a session record is made of.
NoFile == [kind |-> "missing", data |-> <<>>]
BadFile == [kind |-> "corrupt", data |-> <<>>]
JsonFile(ss) == [kind |-> "json", data |-> ss]

\* loadSessions: the parsed file, {} when reading or parsing throws
Load(d) == IF d.kind = "json" THEN d.data ELSE <<>>

\* mutant: the comparison with TTL is inclusive
PruneInclusive(ss, t) ==
    [c \in {k \in DOMAIN ss : t - ss[k].createdAt <= TTL} |-> ss[c]]

\* mutant: the comparison with TTL is the wrong way round
PruneInverted(ss, t) ==
    [c \in {k \in DOMAIN ss : t - ss[k].createdAt >= TTL} |-> ss[c]]

\* server.js lines 25-27: the entries with Date.now() - createdAt < TTL, at
\* the time t of the process start
Prune(ss, t) ==
    [c \in {k \in DOMAIN ss : t - ss[k].createdAt < TTL} |-> ss[c]]

\* saveSessions: JSON.stringify(sessions) is evaluated at the call, the write
\* completes later
Persist ==
    /\ writes' = writes \cup {last'.saves[i] : i \in 1..Len(last'.saves)}
    /\ disk' = disk

\* ---------------------------------------------------------------- Init
\* the process starts without a ./sessions.json
Init ==
    /\ disk = NoFile
    /\ writes = {}
    /\ now = 0
    /\ sessions = Prune(Load(disk), now)
    /\ sockets = [s \in Sockets |-> NewSocket]
    /\ nextId = 1
    /\ steps = 0
    /\ started = [c \in Codes |-> 0]
    /\ last = Started(sessions)

\* ---------------------------------------------------------------- actions
\* one more step of the run, within the bound MaxSteps
Step == steps < MaxSteps /\ steps' = steps + 1

\* io.on('connection'): a new socket object, socket.data = {}, no rooms.
\* Socket slots are interchangeable: the new connection takes the lowest free one.
Connect(s) ==
    /\ Step
    /\ ~sockets[s].open
    /\ \A r \in 1..(s - 1) : sockets[r].open
    /\ sockets' = [sockets EXCEPT ![s] = [NewSocket EXCEPT !.open = TRUE]]
    /\ last' = Event("connection", s, <<>>, Quiet)
    /\ UNCHANGED <<sessions, nextId, now, started>>
    /\ Persist

\* Date.now() moves on, a TTL at a time
Tick ==
    /\ Step
    /\ now < MaxTime * TTL
    /\ now' = now + TTL
    /\ last' = Event("tick", 0, <<>>, Quiet)
    /\ UNCHANGED <<sessions, sockets, nextId, started>>
    /\ Persist

\* mutant: the creator is not flagged as host
NewSessionHostUnflagged(code, sessionName, playerId, nickname, createdAt) ==
    [code         |-> code,
     name         |-> sessionName,
     hostPlayerId |-> playerId,
     players      |-> <<Player(playerId, nickname, 0, FALSE)>>,
     createdAt    |-> createdAt,
     isActive     |-> FALSE]

\* the session object createSession builds
NewSession(code, sessionName, playerId, nickname, createdAt) ==
    [code         |-> code,
     name         |-> sessionName,
     hostPlayerId |-> playerId,
     players      |-> <<Player(playerId, nickname, 0, TRUE)>>,
     createdAt    |-> createdAt,
     isActive     |-> FALSE]

CreateSession(s, code, nickname, sessionName) ==
    /\ Step
    /\ sockets[s].open
    /\ LET playerId == nextId
           session  == NewSession(code, sessionName, playerId, nickname, now)
           ss       == Put(sessions, code, session)
           socks    == Associate(sockets, s, code, playerId)
           b        == broadcast(ss, socks, code)
           reply    == EmitTo(s, "createSessionResponse",
                              [session |-> session, player |-> session.players[1]])
       IN /\ sessions' = ss
          /\ sockets' = socks
          /\ nextId' = nextId + 1
          /\ started' = [started EXCEPT ![code] = 0]
          /\ last' = Event("createSession", s,
                           [code |-> code, playerId |-> playerId, nickname |-> nickname],
                           [saves |-> b.saves, out |-> <<reply>> \o b.out])
    /\ UNCHANGED now
    /\ Persist

\* mutant: only a missing session is rejected
JoinRejectedIfMissing(ss, code) == code \notin DOMAIN ss

\* joinSession line 67: reject if not found or already active
JoinRejected(ss, code) == code \notin DOMAIN ss \/ ss[code].isActive

\* mutant: the rejection goes through broadcast-style room emission
JoinRejectionToRoom(socks, s, code) ==
    [saves |-> <<>>,
     out   |-> <<EmitRoom(socks, code, "error", "Session not found or already started")>>]

\* joinSession line 67: what a rejected join does
JoinRejection(socks, s, code) ==
    [saves |-> <<>>,
     out   |-> <<EmitTo(s, "error", "Session not found or already started")>>]

\* mutant: the newcomer is put in front
JoinPlayersUnshift(session, player) == <<player>> \o session.players

\* joinSession line 72: session.players.push(player)
JoinPlayers(session, player) == Append(session.players, player)

JoinSession(s, code, nickname) ==
    /\ Step
    /\ sockets[s].open
    /\ IF JoinRejected(sessions, code)
       THEN /\ last' = Event("joinSession", s, [code |-> code, nickname |-> nickname],
                             JoinRejection(sockets, s, code))
            /\ UNCHANGED <<sessions, sockets, nextId, now, started>>
       ELSE /\ LET playerId == nextId
                   player   == Player(playerId, nickname, 0, FALSE)
                   ss       == [sessions EXCEPT
                                   ![code].players = JoinPlayers(sessions[code], player)]
                   socks    == Associate(sockets, s, code, playerId)
                   b        == broadcast(ss, socks, code)
                   reply    == EmitTo(s, "joinSessionResponse",
                                      [session |-> ss[code], player |-> player])
               IN /\ sessions' = ss
                  /\ sockets' = socks
                  /\ nextId' = nextId + 1
                  /\ last' = Event("joinSession", s,
                                   [code |-> code, nickname |-> nickname,
                                    playerId |-> playerId],
                                   [saves |-> b.saves, out |-> <<reply>> \o b.out])
            /\ UNCHANGED <<now, started>>
    /\ Persist

\* mutant: no lookup, the player is always pushed
RejoinPlayersAlwaysPush(session, playerId, nickname) ==
    Append(session.players,
           Player(playerId, nickname, 0, playerId = session.hostPlayerId))

\* mutant: a re-created player is never the host
RejoinPlayersNeverHost(session, playerId, nickname) ==
    LET i == FindPlayer(session.players, playerId) IN
    IF i = 0
    THEN Append(session.players, Player(playerId, nickname, 0, FALSE))
    ELSE [session.players EXCEPT ![i].isHost = (playerId = session.hostPlayerId),
                                 ![i].nickname = nickname]

\* mutant: a known player is rebuilt from scratch, score included
RejoinPlayersResetScore(session, playerId, nickname) ==
    LET i == FindPlayer(session.players, playerId) IN
    IF i = 0
    THEN Append(session.players,
                Player(playerId, nickname, 0, playerId = session.hostPlayerId))
    ELSE [session.players EXCEPT
              ![i] = Player(playerId, nickname, 0, playerId = session.hostPlayerId)]

\* rejoinSession lines 85-95: the players list after reconciliation
RejoinPlayers(session, playerId, nickname) ==
    LET i == FindPlayer(session.players, playerId) IN
    IF i = 0
    THEN Append(session.players,
                Player(playerId, nickname, 0, playerId = session.hostPlayerId))
    ELSE [session.players EXCEPT ![i].isHost = (playerId = session.hostPlayerId),
                                 ![i].nickname = nickname]

\* mutant: the store after a handler that pushes without looking the id up
RejoinStoreNoLookup(ss, code, playerId, nickname) ==
    IF code \notin DOMAIN ss THEN ss
    ELSE [ss EXCEPT ![code].players =
             Append(@, Player(playerId, nickname, 0, playerId = ss[code].hostPlayerId))]

\* rejoinSession lines 82-95: the store after the handler
RejoinStore(ss, code, playerId, nickname) ==
    IF code \notin DOMAIN ss THEN ss
    ELSE [ss EXCEPT ![code].players = RejoinPlayers(ss[code], playerId, nickname)]

RejoinSession(s, code, playerId, nickname) ==
    /\ Step
    /\ sockets[s].open
    /\ IF code \notin DOMAIN sessions
       THEN /\ last' = Event("rejoinSession", s,
                             [code |-> code, playerId |-> playerId, nickname |-> nickname],
                             Ignored(s))
            /\ UNCHANGED <<sessions, sockets>>
       ELSE LET ss      == RejoinStore(sessions, code, playerId, nickname)
                players == ss[code].players
                socks   == Associate(sockets, s, code, playerId)
                b       == broadcast(ss, socks, code)
                reply   == EmitTo(s, "rejoinSessionResponse",
                                  [session |-> ss[code],
                                   player |-> players[FindPlayer(players, playerId)]])
            IN /\ sessions' = ss
               /\ sockets' = socks
               /\ last' = Event("rejoinSession", s,
                                [code |-> code, playerId |-> playerId,
                                 nickname |-> nickname],
                                [saves |-> <<ss>> \o b.saves, out |-> <<reply>> \o b.out])
    /\ UNCHANGED <<nextId, now, started>>
    /\ Persist

\* mutant: an active session can be started again
StartAllowedIfPresent(ss, code) == code \in DOMAIN ss

\* startSession line 108
StartAllowed(ss, code) == code \in DOMAIN ss /\ ~ss[code].isActive

StartSession(s, code) ==
    /\ Step
    /\ sockets[s].open
    /\ IF ~StartAllowed(sessions, code)
       THEN /\ last' = Event("startSession", s, [code |-> code], Ignored(s))
            /\ UNCHANGED <<sessions, started>>
       ELSE LET ss == [sessions EXCEPT ![code].isActive = TRUE]
                b  == broadcast(ss, sockets, code)
            IN /\ sessions' = ss
               /\ started' = [started EXCEPT ![code] = IF @ < 2 THEN @ + 1 ELSE @]
               /\ last' = Event("startSession", s, [code |-> code],
                                [saves |-> b.saves,
                                 out |-> b.out \o
                                     <<EmitRoom(sockets, code, "sessionStarted", <<>>)>>])
    /\ UNCHANGED <<sockets, nextId, now>>
    /\ Persist

\* mutant: the phase is not looked at
ScoreAllowedAnyPhase(ss, code, playerId) ==
    /\ code \in DOMAIN ss
    /\ FindPlayer(ss[code].players, playerId) # 0

\* mutant: the phase test is the wrong way round
ScoreAllowedInLobby(ss, code, playerId) ==
    /\ code \in DOMAIN ss
    /\ ~ss[code].isActive
    /\ FindPlayer(ss[code].players, playerId) # 0

\* updateScore lines 118-120
ScoreAllowed(ss, code, playerId) ==
    /\ code \in DOMAIN ss
    /\ ss[code].isActive
    /\ FindPlayer(ss[code].players, playerId) # 0

UpdateScore(s, code, playerId, score) ==
    /\ Step
    /\ sockets[s].open
    /\ IF ~ScoreAllowed(sessions, code, playerId)
       THEN /\ last' = Event("updateScore", s,
                             [code |-> code, playerId |-> playerId, score |-> score],
                             Ignored(s))
            /\ UNCHANGED sessions
       ELSE LET i  == FindPlayer(sessions[code].players, playerId)
                ss == [sessions EXCEPT ![code].players[i].score = score]
                b  == broadcast(ss, sockets, code)
            IN /\ sessions' = ss
               /\ last' = Event("updateScore", s,
                                [code |-> code, playerId |-> playerId, score |-> score],
                                b)
    /\ UNCHANGED <<sockets, nextId, now, started>>
    /\ Persist

LeaveSession(s, code, playerId) ==
    /\ Step
    /\ sockets[s].open
    /\ IF code \notin DOMAIN sessions
       THEN /\ last' = Event("leaveSession", s,
                             [code |-> code, playerId |-> playerId], Ignored(s))
            /\ UNCHANGED <<sessions, sockets>>
       ELSE LET ss    == [sessions EXCEPT
                             ![code].players = RemovePlayer(@, playerId)]
                socks == [sockets EXCEPT ![s].rooms = @ \ {code}]
                b     == broadcast(ss, socks, code)
            IN /\ sessions' = ss
               /\ sockets' = socks
               /\ last' = Event("leaveSession", s,
                                [code |-> code, playerId |-> playerId], b)
    /\ UNCHANGED <<nextId, now, started>>
    /\ Persist

\* mutant: the host is removed like anybody else
DisconnectPlayersHostToo(session, playerId) ==
    RemovePlayer(session.players, playerId)

\* disconnect lines 140-142: the host's seat survives a transport drop
DisconnectPlayers(session, playerId) ==
    IF playerId # session.hostPlayerId
    THEN RemovePlayer(session.players, playerId)
    ELSE session.players

\* The transport has closed the socket and taken it out of its rooms when the
\* 'disconnect' listener runs; socket.data still holds the association.
Disconnect(s) ==
    /\ Step
    /\ sockets[s].open
    /\ LET data  == sockets[s].data
           socks == [sockets EXCEPT ![s] = NewSocket]
       IN /\ sockets' = socks
          /\ IF data = NoData \/ data[1] \notin DOMAIN sessions
             THEN /\ last' = Event("disconnect", s, [data |-> data], Ignored(s))
                  /\ UNCHANGED sessions
             ELSE LET code == data[1]
                      ss   == [sessions EXCEPT ![code].players =
                                  DisconnectPlayers(sessions[code], data[2])]
                  IN /\ sessions' = ss
                     /\ last' = Event("disconnect", s,
                                      [data |-> data, code |-> code,
                                       playerId |-> data[2]],
                                      broadcast(ss, socks, code))
    /\ UNCHANGED <<nextId, now, started>>
    /\ Persist

\* the writeFile callback of saveSessions: a write in flight completes, in any
\* order with the others, and the file holds its snapshot
WriteDone(w) ==
    /\ Step
    /\ w \in writes
    /\ disk' = JsonFile(w)
    /\ writes' = writes \ {w}
    /\ last' = Event("writeDone", 0, <<>>, Quiet)
    /\ UNCHANGED <<sessions, sockets, nextId, now, started>>

Next ==
    \/ \E s \in Sockets : Connect(s)
    \/ Tick
    \/ \E s \in Sockets, code \in Codes, nickname \in Nicknames,
          sessionName \in SessionNames : CreateSession(s, code, nickname, sessionName)
    \/ \E s \in Sockets, code \in Codes, nickname \in Nicknames :
          JoinSession(s, code, nickname)
    \/ \E s \in Sockets, code \in Codes, playerId \in ClientIds, nickname \in Nicknames :
          RejoinSession(s, code, playerId, nickname)
    \/ \E s \in Sockets, code \in Codes : StartSession(s, code)
    \/ \E s \in Sockets, code \in Codes, playerId \in ClientIds, score \in Scores :
          UpdateScore(s, code, playerId, score)
    \/ \E s \in Sockets, code \in Codes, playerId \in ClientIds :
          LeaveSession(s, code, playerId)
    \/ \E s \in Sockets : Disconnect(s)
    \/ \E w \in writes : WriteDone(w)

Spec == Init /\ [][Next]_vars

\* ---------------------------------------------------------------- restart
\* steps a run takes after a restart
BootSteps == 3

\* the ages, at the restart, of the sessions ./sessions.json holds
BootAges == {TTL - 1, TTL, TTL + 1}

\* the ids nanoid() gave to hosts before the restart, one per code
BootIds == 1..Cardinality(Codes)
BootHost == CHOOSE f \in [Codes -> BootIds] : \A c, d \in Codes : f[c] = f[d] => c = d

\* the sessions an earlier run of the process created under code c
BootSessions(c) ==
    {NewSession(c, sessionName, BootHost[c], nickname, 0 - age) :
        sessionName \in SessionNames, nickname \in {"Ann"}, age \in BootAges}

\* the mappings an earlier run handed to saveSessions
BootMappings ==
    UNION {{ss \in [D -> UNION {BootSessions(c) : c \in D}] :
               \A c \in D : ss[c] \in BootSessions(c)} : D \in SUBSET Codes}

\* what a starting process can find at ./sessions.json
BootFiles == {NoFile, BadFile} \cup {JsonFile(ss) : ss \in BootMappings}

\* the process starts again at time 0, over the file an earlier run left;
\* the steps of that run are spent
InitBoot ==
    /\ disk \in BootFiles
    /\ writes = {}
    /\ now = 0
    /\ sessions = Prune(Load(disk), now)
    /\ sockets = [s \in Sockets |-> NewSocket]
    /\ nextId = Cardinality(Codes) + 1
    /\ steps = MaxSteps - BootSteps
    /\ started = [c \in Codes |-> 0]
    /\ last = Started(sessions)

SpecBoot == InitBoot /\ [][Next]_vars

\* ---------------------------------------------------------------- lobby runs
\* the first createSession of a run
CreateFirst(s, code, nickname, sessionName) ==
    /\ sessions = <<>>
    /\ CreateSession(s, code, nickname, sessionName)

\* runs of one createSession followed by joinSession attempts, some of them
\* after the host started the session
NextCreateJoin ==
    \/ \E s \in Sockets : Connect(s)
    \/ \E s \in Sockets, code \in Codes, nickname \in Nicknames,
          sessionName \in SessionNames : CreateFirst(s, code, nickname, sessionName)
    \/ \E s \in Sockets, code \in Codes, nickname \in Nicknames :
          JoinSession(s, code, nickname)
    \/ \E s \in Sockets, code \in Codes : StartSession(s, code)

SpecCreateJoin == Init /\ [][NextCreateJoin]_vars

\* ---------------------------------------------------------------- reconnection
\* steps of a run in which a player comes back on a second connection
ReconnectSteps == 6

InitReconnect ==
    /\ disk = NoFile
    /\ writes = {}
    /\ now = 0
    /\ sessions = Prune(Load(disk), now)
    /\ sockets = [s \in Sockets |-> NewSocket]
    /\ nextId = 1
    /\ steps = MaxSteps - ReconnectSteps
    /\ started = [c \in Codes |-> 0]
    /\ last = Started(sessions)

\* one session, players joining it, coming back to it and dropping off
NextReconnect ==
    \/ \E s \in Sockets : Connect(s)
    \/ \E s \in Sockets, code \in Codes, nickname \in Nicknames,
          sessionName \in SessionNames : CreateFirst(s, code, nickname, sessionName)
    \/ \E s \in Sockets, code \in Codes, nickname \in Nicknames :
          JoinSession(s, code, nickname)
    \/ \E s \in Sockets, code \in Codes, playerId \in ClientIds, nickname \in Nicknames :
          RejoinSession(s, code, playerId, nickname)
    \/ \E s \in Sockets : Disconnect(s)

SpecReconnect == InitReconnect /\ [][NextReconnect]_vars

\* ---------------------------------------------------------------- properties
\* what the latest step found and was given
Before == last.before
Args == last.args

PlayerIds(session) == {session.players[i].id : i \in 1..Len(session.players)}

Hosts(session) == {i \in 1..Len(session.players) : session.players[i].isHost}

\* the latest step handled `op` against a code that had a session
On(op) == last.op = op /\ Args.code \in DOMAIN Before

\* the session under c is active before and after the latest step and has a
\* player id it did not have
GainedWhileActive(c) ==
    /\ c \in DOMAIN Before /\ Before[c].isActive
    /\ c \in DOMAIN sessions /\ sessions[c].isActive
    /\ ~(PlayerIds(sessions[c]) \subseteq PlayerIds(Before[c]))

\* C1 as stated: whatever the operation, a session whose isActive is true
\* gains no player; its set of player ids grows only while isActive = false.
C1_NoPlayerAddedWhileActive == \A c \in Codes : ~GainedWhileActive(c)

\* C1 amended: a session whose isActive is true gains a player only through
\* rejoinSession with a playerId that is not in its players, which adds that
\* one id; no other operation adds a player to an active session.
C1_OnlyRejoinAddsWhileActive ==
    \A c \in Codes :
        GainedWhileActive(c) =>
            /\ last.op = "rejoinSession"
            /\ Args.code = c
            /\ Args.playerId \notin PlayerIds(Before[c])
            /\ PlayerIds(sessions[c]) = PlayerIds(Before[c]) \cup {Args.playerId}

\* C1 witness: an active session with players has just taken in an unknown id
\* through rejoinSession
C1_Witness ==
    /\ On("rejoinSession")
    /\ GainedWhileActive(Args.code)
    /\ Len(Before[Args.code].players) >= 1

\* the latest step was a joinSession the code must reject
RejectedJoin ==
    /\ last.op = "joinSession"
    /\ (Args.code \notin DOMAIN Before \/ Before[Args.code].isActive)

\* C2: a joinSession against a missing or an active session leaves the store,
\* the caller's association and every room as they were, saves nothing, sends
\* no sessionUpdate, and sends exactly one error, to the caller alone.
C2_RejectedJoinIsInert ==
    RejectedJoin =>
        /\ sessions = Before
        /\ sockets = last.socksBefore
        /\ last.saves = <<>>
        /\ Len(last.out) = 1
        /\ last.out[1].ev = "error"
        /\ last.out[1].to = {last.sock}

\* C2 witness: a join was rejected because the session is active, while
\* another socket sits in that session's room
C2_Witness ==
    /\ RejectedJoin
    /\ Args.code \in DOMAIN Before
    /\ Room(sockets, Args.code) \ {last.sock} # {}

\* C3: no players list holds two entries with the same id.
C3_UniquePlayerIds ==
    \A c \in DOMAIN sessions :
        \A i, j \in 1..Len(sessions[c].players) :
            sessions[c].players[i].id = sessions[c].players[j].id => i = j

\* C3 witness: rejoinSession was handled for an id already in a list of two or
\* more players
C3_Witness ==
    /\ On("rejoinSession")
    /\ Args.playerId \in PlayerIds(Before[Args.code])
    /\ Len(sessions[Args.code].players) >= 2

\* C4: a player's isHost is true exactly when its id is hostPlayerId; so one
\* player is flagged while the host's id is in players and none once it is not.
C4_IsHostIffHostId ==
    \A c \in DOMAIN sessions :
        LET session == sessions[c] IN
        /\ \A i \in 1..Len(session.players) :
              session.players[i].isHost = (session.players[i].id = session.hostPlayerId)
        /\ Cardinality(Hosts(session)) =
              IF session.hostPlayerId \in PlayerIds(session) THEN 1 ELSE 0

\* C4 witness: the host was removed from a session that still has players
C4_Witness ==
    \E c \in DOMAIN sessions :
        /\ sessions[c].hostPlayerId \notin PlayerIds(sessions[c])
        /\ sessions[c].players # <<>>
        /\ c \in DOMAIN Before
        /\ Before[c].hostPlayerId \in PlayerIds(Before[c])

\* the score of player id in session, which has such a player
ScoreOf(session, id) == session.players[FindPlayer(session.players, id)].score

\* the latest step was an updateScore against a session in the lobby phase
LobbyScoreUpdate == On("updateScore") /\ ~Before[Args.code].isActive

\* C5: the score of a player who stays in a session changes only through an
\* updateScore for that player on a session with isActive = true; an
\* updateScore on a session with isActive = false changes nothing in the store,
\* broadcasts nothing and saves nothing.
C5_ScoreOnlyWhileActive ==
    /\ \A c \in DOMAIN Before \cap DOMAIN sessions :
          \A id \in PlayerIds(Before[c]) \cap PlayerIds(sessions[c]) :
              ScoreOf(sessions[c], id) # ScoreOf(Before[c], id) =>
                  /\ last.op = "updateScore"
                  /\ Args.code = c /\ Args.playerId = id
                  /\ Before[c].isActive
                  /\ ScoreOf(sessions[c], id) = Args.score
    /\ LobbyScoreUpdate =>
          /\ sessions = Before
          /\ last.out = <<>>
          /\ last.saves = <<>>

\* C5 witness: updateScore asked for a new score for a player of a session
\* that has not been started
C5_Witness ==
    /\ LobbyScoreUpdate
    /\ Args.playerId \in PlayerIds(Before[Args.code])
    /\ Args.score # ScoreOf(Before[Args.code], Args.playerId)

\* the latest step was a startSession against a session in the lobby phase
LobbyStart == On("startSession") /\ ~Before[Args.code].isActive

\* C6: startSession on a session with isActive = false sets isActive and gives
\* the session's room exactly one sessionUpdate carrying isActive = true,
\* followed by exactly one sessionStarted; on an active session it emits
\* nothing; a session record gets sessionStarted at most once.
C6_StartEmitsUpdateThenStarted ==
    /\ LobbyStart =>
          /\ sessions = [Before EXCEPT ![Args.code].isActive = TRUE]
          /\ Len(last.out) = 2
          /\ last.out[1].ev = "sessionUpdate"
          /\ last.out[1].room = Args.code
          /\ last.out[1].to = Room(sockets, Args.code)
          /\ last.out[1].data = sessions[Args.code]
          /\ last.out[1].data.isActive
          /\ last.out[2].ev = "sessionStarted"
          /\ last.out[2].room = Args.code
          /\ last.out[2].to = Room(sockets, Args.code)
    /\ (On("startSession") /\ Before[Args.code].isActive) =>
          /\ last.out = <<>>
          /\ sessions = Before
    /\ \A c \in Codes : started[c] <= 1

\* C6 witness: a lobby session was started while two sockets were in its room
C6_Witness ==
    /\ LobbyStart
    /\ Cardinality(Room(sockets, Args.code)) >= 2
    /\ started[Args.code] = 1

\* C7 as stated: under every code, a session that had isActive = true before a
\* step has isActive = true after it.
C7_ActiveStaysActive ==
    \A c \in DOMAIN Before :
        Before[c].isActive => (c \in DOMAIN sessions /\ sessions[c].isActive)

\* What does hold of C7: an active session leaves the active phase only by
\* being overwritten, when createSession draws the code it is stored under.
ActiveUntilOverwritten ==
    \A c \in DOMAIN Before :
        Before[c].isActive =>
            /\ c \in DOMAIN sessions
            /\ sessions[c].isActive \/ (last.op = "createSession" /\ Args.code = c)

\* the latest step was the disconnect of a socket associated with a session
\* that exists
AssociatedDisconnect ==
    /\ last.op = "disconnect"
    /\ Args.data # NoData
    /\ Args.data[1] \in DOMAIN Before

\* C8: when a socket associated with (code, playerId) of an existing session
\* is lost, a playerId other than hostPlayerId is filtered out of players and
\* nothing else changes, a playerId equal to hostPlayerId changes nothing, and
\* either way the room gets one sessionUpdate with the current record.
C8_DisconnectRemovesOnlyNonHost ==
    AssociatedDisconnect =>
        LET code     == Args.data[1]
            playerId == Args.data[2]
        IN /\ playerId # Before[code].hostPlayerId =>
                 sessions = [Before EXCEPT ![code].players = RemovePlayer(@, playerId)]
           /\ playerId = Before[code].hostPlayerId => sessions = Before
           /\ Len(last.out) = 1
           /\ last.out[1].ev = "sessionUpdate"
           /\ last.out[1].room = code
           /\ last.out[1].to = Room(sockets, code)
           /\ last.out[1].data = sessions[code]

\* C8 witness: a non-host player's socket was lost, the player was taken out
\* and the host, still connected, stays in the list
C8_Witness ==
    /\ AssociatedDisconnect
    /\ Args.data[2] # Before[Args.data[1]].hostPlayerId
    /\ Args.data[2] \in PlayerIds(Before[Args.data[1]])
    /\ Args.data[2] \notin PlayerIds(sessions[Args.data[1]])
    /\ sessions[Args.data[1]].players # <<>>
    /\ last.out[1].to # {}

\* the latest step was a rejoinSession for an id the session did not have
UnknownRejoin ==
    On("rejoinSession") /\ Args.playerId \notin PlayerIds(Before[Args.code])

\* C9: rejoinSession with a playerId that is not in players appends one player
\* at the end, with that id, the given nickname, score 0 and isHost =
\* (playerId = hostPlayerId), in the lobby and the active phase alike, and
\* changes nothing else.
C9_UnknownRejoinAppends ==
    UnknownRejoin =>
        sessions = [Before EXCEPT ![Args.code].players =
                       Append(@, [id       |-> Args.playerId,
                                  nickname |-> Args.nickname,
                                  score    |-> 0,
                                  isHost   |-> Args.playerId =
                                                 Before[Args.code].hostPlayerId])]

\* C9 witness: an active session that holds a player took in an unknown id
C9_Witness ==
    /\ UnknownRejoin
    /\ Before[Args.code].isActive
    /\ Before[Args.code].players # <<>>
    /\ Len(sessions[Args.code].players) = Len(Before[Args.code].players) + 1

\* the latest step was a rejoinSession for an id the session had
KnownRejoin ==
    On("rejoinSession") /\ Args.playerId \in PlayerIds(Before[Args.code])

\* C10: rejoinSession with a playerId that is in players keeps the length and
\* the order of players; of the matching entry only nickname and isHost can
\* change; its score, every other player, isActive, hostPlayerId, createdAt
\* and every other session stay as they were.
C10_KnownRejoinFrame ==
    KnownRejoin =>
        LET old == Before[Args.code]
            new == sessions[Args.code]
        IN /\ DOMAIN sessions = DOMAIN Before
           /\ \A c \in DOMAIN Before \ {Args.code} : sessions[c] = Before[c]
           /\ new.isActive = old.isActive
           /\ new.hostPlayerId = old.hostPlayerId
           /\ new.createdAt = old.createdAt
           /\ new.code = old.code /\ new.name = old.name
           /\ Len(new.players) = Len(old.players)
           /\ \A i \in 1..Len(old.players) :
                 /\ new.players[i].id = old.players[i].id
                 /\ new.players[i].score = old.players[i].score
                 /\ old.players[i].id # Args.playerId =>
                       new.players[i] = old.players[i]

\* C10 witness: a player with a score other than 0 rejoined under another
\* nickname
C10_Witness ==
    /\ KnownRejoin
    /\ ScoreOf(Before[Args.code], Args.playerId) # 0
    /\ Before[Args.code].players # sessions[Args.code].players

\* C11: rejoinSession is idempotent on the store: whatever the store and the
\* payload (code, playerId, nickname), handling the same rejoinSession a second
\* time leaves the store as the first left it.
C11_RejoinIdempotent ==
    \A code \in Codes, playerId \in ClientIds, nickname \in Nicknames :
        LET once == RejoinStore(sessions, code, playerId, nickname)
        IN RejoinStore(once, code, playerId, nickname) = once

\* C11 witness: a rejoinSession has just changed the store (it added a player
\* or renamed one), and a second one with the same payload would not
C11_Witness ==
    /\ On("rejoinSession")
    /\ sessions = RejoinStore(Before, Args.code, Args.playerId, Args.nickname)
    /\ sessions # Before
    /\ Len(sessions[Args.code].players) >= 2

\* C12 as stated: createSession stores its session under a code no live
\* session was using: the store has one session more and every session that
\* was there is unchanged.
C12_CreateUsesFreshCode ==
    last.op = "createSession" =>
        /\ Args.code \notin DOMAIN Before
        /\ Cardinality(DOMAIN sessions) = Cardinality(DOMAIN Before) + 1
        /\ \A c \in DOMAIN Before : sessions[c] = Before[c]

\* the latest step sent a sessionUpdate for, or changed, the session under c
Exposed(c) ==
    \/ \E i \in 1..Len(last.out) :
          last.out[i].ev = "sessionUpdate" /\ last.out[i].room = c
    \/ /\ c \in DOMAIN sessions
       /\ last.op \in {"joinSession", "rejoinSession", "startSession", "updateScore"}
       /\ (c \notin DOMAIN Before \/ sessions[c] # Before[c])

\* C13 as stated: no step of the running process changes, or sends a
\* sessionUpdate for, a session whose age (now - createdAt) has reached TTL.
C13_NoExpiredExposed ==
    \A c \in DOMAIN sessions :
        Exposed(c) => now - sessions[c].createdAt < TTL

\* C13 amended: a session whose age had reached TTL when the process started
\* (at time 0) is never in the store, so no operation succeeds against it and
\* no sessionUpdate carries it; a session that reaches TTL while the process
\* runs stays live until the next start.
C13_NoneExpiredAtStartIsLive ==
    /\ \A c \in DOMAIN sessions : 0 - sessions[c].createdAt < TTL
    /\ \A i \in 1..Len(last.out) :
          last.out[i].ev = "sessionUpdate" => 0 - last.out[i].data.createdAt < TTL

\* C13 witness: the file held a session that had reached TTL at the start, and
\* a joinSession for its code has just been answered with an error
C13_Witness ==
    /\ last.op = "joinSession"
    /\ disk.kind = "json"
    /\ Args.code \in DOMAIN disk.data
    /\ 0 - disk.data[Args.code].createdAt >= TTL
    /\ Args.code \notin DOMAIN sessions
    /\ last.out[1].ev = "error"

\* C14: at process start the store is the persisted mapping restricted to the
\* sessions with now - createdAt < TTL, each with its record unchanged (aged
\* TTL + 1 hours: absent; aged TTL - 1 hours: present), and it is empty when
\* the file is missing or cannot be parsed.
C14_StartLoadsUnexpired ==
    last.op = "init" =>
        /\ disk.kind # "json" => sessions = <<>>
        /\ disk.kind = "json" =>
              /\ DOMAIN sessions =
                     {c \in DOMAIN disk.data : now - disk.data[c].createdAt < TTL}
              /\ \A c \in DOMAIN sessions : sessions[c] = disk.data[c]
              /\ \A c \in DOMAIN disk.data :
                    /\ now - disk.data[c].createdAt = TTL + 1 => c \notin DOMAIN sessions
                    /\ now - disk.data[c].createdAt = TTL - 1 => c \in DOMAIN sessions

\* C14 witness: the process started over a file with a session aged TTL + 1
\* hours, now absent, and one aged TTL - 1 hours, now present
C14_Witness ==
    /\ last.op = "init"
    /\ disk.kind = "json"
    /\ \E c \in DOMAIN disk.data :
          now - disk.data[c].createdAt = TTL + 1 /\ c \notin DOMAIN sessions
    /\ \E c \in DOMAIN disk.data :
          now - disk.data[c].createdAt = TTL - 1 /\ c \in DOMAIN sessions

\* C14 witness of the other case: the process started over a file that cannot
\* be parsed, with an empty store
C14_CorruptStartsEmpty ==
    last.op = "init" /\ disk.kind = "corrupt" /\ sessions = <<>>

\* C15: after one createSession and any number of joinSession attempts on its
\* code, players holds the host at the first index followed by the players of
\* the joins that succeeded, in the order the joins were handled (ids are
\* issued in that order): its length is 1 + the number of successful joins; a
\* successful join appends its player and a rejected one changes nothing.
C15_PlayersInArrivalOrder ==
    /\ \A c \in DOMAIN sessions :
          LET players == sessions[c].players IN
          /\ Len(players) = 1 + (nextId - 2)
          /\ players[1].id = sessions[c].hostPlayerId /\ players[1].isHost
          /\ \A i \in 1..Len(players) : players[i].id = i
    /\ (On("joinSession") /\ ~Before[Args.code].isActive) =>
          /\ sessions[Args.code].players =
                 Append(Before[Args.code].players,
                        Player(nextId - 1, Args.nickname, 0, FALSE))
    /\ RejectedJoin => sessions = Before

\* C15 witness: the second successful join on the code of the session
C15_Witness ==
    /\ On("joinSession")
    /\ Len(Before[Args.code].players) = 2
    /\ Len(sessions[Args.code].players) = 3

\* C15 witness of the other case: a join attempt on the code was rejected
\* after an earlier one succeeded
C15_RejectedAfterJoin ==
    /\ RejectedJoin
    /\ Args.code \in DOMAIN sessions
    /\ Len(sessions[Args.code].players) = 2

\* C16 as stated: once every save that was issued has completed, the file
\* holds the in-memory store, whatever the order the writes completed in.
C16_SavesConverge ==
    (writes = {} /\ last.saved # <<>>) => disk = JsonFile(sessions)

\* the codes whose record the latest step created or changed
Changed == {c \in DOMAIN sessions : c \notin DOMAIN Before \/ sessions[c] # Before[c]}

\* C17: a step that changes the store saves and sends a sessionUpdate for the
\* code it changed, after its last mutation; so after every step the snapshot
\* of the most recent save is the in-memory store, and the last sessionUpdate
\* sent for a code carries that code's current record.
C17_BroadcastAfterLastMutation ==
    /\ \A c \in Changed :
          /\ last.saves # <<>>
          /\ \E i \in 1..Len(last.out) :
                /\ last.out[i].ev = "sessionUpdate"
                /\ last.out[i].room = c
                /\ last.out[i].data = sessions[c]
    /\ DOMAIN sessions \ DOMAIN Before \subseteq Changed
    /\ DOMAIN Before \subseteq DOMAIN sessions
    /\ last.saved # <<>> => last.saved[1] = sessions
    /\ \A c \in DOMAIN last.updates :
          c \in DOMAIN sessions /\ last.updates[c] = sessions[c]

\* C17 witness: updateScore changed a record that had been saved and sent
\* before; the save and the sessionUpdate it issued carry the new record
C17_Witness ==
    /\ On("updateScore")
    /\ Args.code \in Changed
    /\ last.saved = <<sessions>>
    /\ last.updates[Args.code] = sessions[Args.code]
    /\ last.updates[Args.code] # Before[Args.code]

\* the latest step was an event against a code with no session, or an
\* updateScore for a playerId its session does not have
NoSuchSession ==
    \/ /\ last.op \in {"startSession", "updateScore", "leaveSession", "rejoinSession"}
       /\ Args.code \notin DOMAIN Before
    \/ /\ last.op = "disconnect"
       /\ (Args.data = NoData \/ Args.data[1] \notin DOMAIN Before)

NoSuchPlayer ==
    On("updateScore") /\ Args.playerId \notin PlayerIds(Before[Args.code])

\* C18: startSession, updateScore, leaveSession, rejoinSession and the loss of
\* a connection against a code with no session, and updateScore for a playerId
\* that is not in players, leave the store as it was, emit nothing to anybody
\* and save nothing.
C18_SilentNoOp ==
    (NoSuchSession \/ NoSuchPlayer) =>
        /\ sessions = Before
        /\ last.out = <<>>
        /\ last.saves = <<>>
        /\ last.op # "disconnect" => sockets = last.socksBefore

\* C18 witness: updateScore named a playerId that an active session, with a
\* socket in its room, does not have
C18_Witness ==
    /\ NoSuchPlayer
    /\ Before[Args.code].isActive
    /\ Room(sockets, Args.code) # {}

\* C18 witness of the other case: an event named a code with no session
\* while another session was live
C18_MissingCodeIgnored ==
    /\ NoSuchSession
    /\ last.op \in {"startSession", "leaveSession", "rejoinSession"}
    /\ Before # <<>>

\* the sockets, other than the one the latest step was about, that are open
\* and associated with (code, playerId)
OtherSockets(code, playerId) ==
    {s \in Sockets \ {last.sock} :
        /\ sockets[s].open
        /\ sockets[s].data = <<code, playerId>>
        /\ code \in sockets[s].rooms}

\* C19 as stated: the loss of a connection associated with (code, playerId)
\* leaves a non-host player in players when another open connection is
\* associated with the same code and playerId.
C19_ReachablePlayerStays ==
    (/\ AssociatedDisconnect
     /\ Args.data[2] # Before[Args.data[1]].hostPlayerId
     /\ Args.data[2] \in PlayerIds(Before[Args.data[1]])
     /\ OtherSockets(Args.data[1], Args.data[2]) # {})
        => Args.data[2] \in PlayerIds(sessions[Args.data[1]])

\* C20: from an empty store on, every player of a session with isActive =
\* false has score 0; a score other than 0 is found only in a started session.
C20_LobbyScoresZero ==
    \A c \in DOMAIN sessions :
        ~sessions[c].isActive =>
            \A i \in 1..Len(sessions[c].players) : sessions[c].players[i].score = 0

\* C20 witness: a session in the lobby phase, with its players, next to a
\* started session in which a player has a score other than 0
C20_Witness ==
    \E c, d \in DOMAIN sessions :
        /\ ~sessions[c].isActive /\ sessions[c].players # <<>>
        /\ sessions[d].isActive
        /\ \E i \in 1..Len(sessions[d].players) : sessions[d].players[i].score # 0

====
